---------------------------- MODULE Spec2Model ----------------------------
(***************************************************************************)
(* Model of sales_what_if_rootcause.py: one pass of the script is one      *)
(* evaluation (select filters, apply filters, aggregate KPIs, evaluate     *)
(* flags, narrate Tree A and Tree B, rank the leaderboards); a selection   *)
(* change re-runs the script from the top on the same cached dataset.      *)
(*                                                                         *)
(* Numbers are exact rationals <<numerator, denominator>> in lowest terms  *)
(* with a positive denominator; <<0, 0>> stands for NaN.  Floating-point   *)
(* rounding is not modelled.  The st.* rendering calls are modelled only   *)
(* by the (severity, source line) pair of each diagnostic message.         *)
(***************************************************************************)
EXTENDS Integers, Sequences, FiniteSets, TLC

VARIABLES df, cols, pc,
          dsm_list, selected_dsm, ase_list, selected_ase,
          territory_list, selected_territory,
          filtered_df, kpi, flags, out, reads,
          top_1_ase, bottom_3_ase, top_1_territory, bottom_3_territory

vars == <<df, cols, pc, dsm_list, selected_dsm, ase_list, selected_ase,
          territory_list, selected_territory, filtered_df, kpi, flags, out,
          reads, top_1_ase, bottom_3_ase, top_1_territory, bottom_3_territory>>

-----------------------------------------------------------------------------
(* Bounds of the model *)

\* rows of a dataset of the hierarchy family
MaxRows == 2

\* rows of a dataset of the ranking family
MaxRankRows == 4

-----------------------------------------------------------------------------
(* Program constants *)

MandaysPerManpower == 24

CallsPerRoute == 40

TopN == 1

BottomN == 3

\* threshold=0.9 of is_good
Threshold == <<9, 10>>

\* the 0.8 of prod_plan and lines_per_outlet_plan
PlanRatio == <<4, 5>>

AllDSMs == "All DSMs"

AllASEs == "All ASEs"

AllTerritories == "All Territories"

\* a missing cell (NaN) of a hierarchy column
NULL == "<NaN>"

HierCols == {"DSM", "ASE", "SO_Territory"}

MetricCols == {"Manpower Plan", "Manpower Actual", "Mandays Actual",
               "Unique Routes Actual", "Unique Routes Plan",
               "Unique Callage Actual", "Productivity Actual",
               "Secondary INR Actual", "Secondary INR Plan",
               "UBO Actual", "UBO Plan", "ULS Retailer", "ULS DB",
               "TP per Outlet Actual", "TP per Outlet Plan"}

FlagNames == {"callage", "routes", "productivity", "lines", "tp",
              "secondary", "manday"}

-----------------------------------------------------------------------------
(* Exact rational arithmetic standing for the script's float arithmetic *)

Abs(n) == IF n < 0 THEN -n ELSE n

RECURSIVE GCD(_, _)
GCD(a, b) == IF b = 0 THEN a ELSE GCD(b, a % b)

NaN == <<0, 0>>

Norm(n, d) ==
    IF d = 0 THEN NaN
    ELSE LET g == GCD(Abs(n), Abs(d))
             s == IF d < 0 THEN -1 ELSE 1
         IN  <<(s * n) \div g, (s * d) \div g>>

R(n) == <<n, 1>>

IsNaN(a) == a[2] = 0

RAdd(a, b) == IF IsNaN(a) \/ IsNaN(b) THEN NaN
              ELSE Norm(a[1] * b[2] + b[1] * a[2], a[2] * b[2])

RMul(a, b) == IF IsNaN(a) \/ IsNaN(b) THEN NaN
              ELSE Norm(a[1] * b[1], a[2] * b[2])

\* x / 0 of numpy scalars is inf or nan, never an exception; both are NaN here
RDiv(a, b) == IF IsNaN(a) \/ IsNaN(b) THEN NaN
              ELSE Norm(a[1] * b[2], a[2] * b[1])

\* comparisons with NaN are false, NaN != 0 is true
RGeq(a, b) == ~IsNaN(a) /\ ~IsNaN(b) /\ a[1] * b[2] >= b[1] * a[2]

RGt(a, b) == ~IsNaN(a) /\ ~IsNaN(b) /\ a[1] * b[2] > b[1] * a[2]

RNonZero(a) == IsNaN(a) \/ a[1] # 0

-----------------------------------------------------------------------------
(* Table helpers: a table is a sequence of rows, a row a function from its  *)
(* columns (the hierarchy columns and the metric columns of the schema)     *)

\* lexicographic order of the hierarchy keys, as Python's sorted() on str
KeyOrder == <<"A1", "A2", "A3", "A4", "D1", "D2", "T1", "T2", "T3", "T4">>

KeyRank(k) == CHOOSE i \in 1..Len(KeyOrder) : KeyOrder[i] = k

RECURSIVE sorted(_)
sorted(S) ==
    IF S = {} THEN <<>>
    ELSE LET m == CHOOSE x \in S : \A y \in S : KeyRank(x) <= KeyRank(y)
         IN  <<m>> \o sorted(S \ {m})

Elems(s) == {s[i] : i \in 1..Len(s)}

\* table[col].dropna().unique(), as a set
dropna_unique(table, col) == {table[i][col] : i \in 1..Len(table)} \ {NULL}

\* table[table[col] == key]; a NaN cell equals nothing
Where(table, col, key) ==
    SelectSeq(table, LAMBDA r : r[col] # NULL /\ r[col] = key)

RECURSIVE SumCol(_, _)
SumCol(table, col) ==
    IF table = <<>> THEN 0
    ELSE Head(table)[col] + SumCol(Tail(table), col)

\* table[col].mean(); NaN on an empty table
MeanCol(table, col) == Norm(SumCol(table, col), Len(table))

\* an empty check that never finds the table empty
empty_never(table) == FALSE

\* filtered_df.empty
empty(table) == Len(table) = 0

-----------------------------------------------------------------------------
(* The datasets the model is run on.  load_data() reads any CSV; the model  *)
(* draws it from three bounded families.                                    *)

MkRow(d, a, t, m, schema) ==
    [c \in HierCols \cup schema |->
        IF c = "DSM" THEN d
        ELSE IF c = "ASE" THEN a
        ELSE IF c = "SO_Territory" THEN t
        ELSE m[c]]

\* metric cells of a row of the hierarchy and ranking families
HierMetrics(d, a, t) ==
    [c \in MetricCols |->
        CASE c = "Manpower Plan" -> 10
          [] c = "Manpower Actual" -> 8
          [] c = "Mandays Actual" -> IF d = "D1" THEN 240 ELSE 200
          [] c = "Unique Routes Plan" -> 10
          [] c = "Unique Routes Actual" -> IF a = "A1" THEN 9 ELSE 8
          [] c = "Unique Callage Actual" -> IF d = "D1" THEN 360 ELSE 300
          [] c = "Productivity Actual" -> IF a = "A1" THEN 288 ELSE 200
          [] c = "Secondary INR Actual" ->
                 IF t = "T1" THEN 100 ELSE IF t = "T2" THEN 50 ELSE 70
          [] c = "Secondary INR Plan" -> 100
          [] c = "UBO Actual" -> IF t = "T1" THEN 2 ELSE 0
          [] c = "UBO Plan" -> 3
          [] c = "ULS Retailer" -> 62
          [] c = "ULS DB" -> 100
          [] c = "TP per Outlet Actual" ->
                 IF d = "D1" THEN 9 ELSE IF d = "D2" THEN 8 ELSE 10
          [] OTHER -> 10]

HierKeys == [DSM |-> <<"D1", "D2", NULL>>,
             ASE |-> <<"A1", "A2", NULL>>,
             SO_Territory |-> <<"T1", "T2", NULL>>]

\* a row code names one combination of the three hierarchy cells
HierCodes == 0..26

HierRow(code) ==
    LET d == HierKeys.DSM[(code % 3) + 1]
        a == HierKeys.ASE[((code \div 3) % 3) + 1]
        t == HierKeys.SO_Territory[((code \div 9) % 3) + 1]
    IN  MkRow(d, a, t, HierMetrics(d, a, t), MetricCols)

RankASEs == <<"A1", "A2", "A3", "A4">>

RankTerritories == <<"T1", "T2", "T3", "T4">>

\* a row code names one ASE and one of the two secondary actuals
RankCodes == 0..7

\* one territory per ASE; the secondary actual is 50 or 100
RankRow(code) ==
    LET i == (code % 4) + 1
        a == RankASEs[i]
        t == RankTerritories[i]
        m == [HierMetrics("D1", a, t) EXCEPT
                  !["Secondary INR Actual"] = IF code < 4 THEN 50 ELSE 100]
    IN  MkRow("D1", a, t, m, MetricCols)

KpiModes == {"normal", "routes_plan0", "sec_plan0", "tp_plan0", "mp_plan0",
             "ubo0", "uls_db0", "ubo_neg", "neg_plans"}

\* the cell that makes a flag good (exactly on its threshold) or bad (one
\* below it)
Pick(good, onThreshold) == IF good THEN onThreshold ELSE onThreshold - 1

\* metric cells of the one row of a dataset of the KPI family: b says which
\* flags the row aims at, mode which plan inputs are zero or negative
KpiMetrics(b, mode) ==
    LET s == IF mode = "neg_plans" THEN -1 ELSE 1
    IN  [c \in MetricCols |->
        CASE c = "Manpower Plan" -> IF mode = "mp_plan0" THEN 0 ELSE s * 10
          [] c = "Manpower Actual" -> 8
          [] c = "Mandays Actual" -> Pick(b["manday"], 240)
          [] c = "Unique Routes Plan" ->
                 IF mode = "routes_plan0" THEN 0 ELSE s * 10
          [] c = "Unique Routes Actual" -> Pick(b["routes"], s * 9)
          [] c = "Unique Callage Actual" -> Pick(b["callage"], s * 360)
          [] c = "Productivity Actual" -> Pick(b["productivity"], s * 288)
          [] c = "Secondary INR Actual" -> Pick(b["secondary"], s * 9)
          [] c = "Secondary INR Plan" ->
                 IF mode = "sec_plan0" THEN 0 ELSE s * 10
          [] c = "UBO Actual" ->
                 IF mode = "ubo0" THEN 0 ELSE IF mode = "ubo_neg" THEN -2 ELSE 2
          [] c = "UBO Plan" -> 3
          [] c = "ULS Retailer" -> Pick(b["lines"], s * 62)
          [] c = "ULS DB" -> IF mode = "uls_db0" THEN 0 ELSE s * 100
          [] c = "TP per Outlet Actual" -> Pick(b["tp"], s * 9)
          [] OTHER -> IF mode = "tp_plan0" THEN 0 ELSE s * 10]

\* the schemas with one metric column, or all of them, absent
PartialSchemas == {MetricCols \ {c} : c \in MetricCols} \cup {{}}

IsNonDecreasing(f, n) == \A i \in 1..n : \A j \in 1..n : i < j => f[i] <= f[j]

\* drill-down datasets: up to MaxRows rows over two DSMs, ASEs and
\* territories with missing cells; the row order is immaterial to the script
HierDatasets ==
    {[j \in 1..n |-> HierRow(codes[j])] :
        <<n, codes>> \in
            {nc \in UNION {{<<m, f>> : f \in [1..m -> HierCodes]} :
                              m \in 0..MaxRows} :
                IsNonDecreasing(nc[2], nc[1])}}

RankDatasets ==
    {[j \in 1..n |-> RankRow(codes[j])] :
        <<n, codes>> \in
            {nc \in UNION {{<<m, f>> : f \in [1..m -> RankCodes]} :
                              m \in 1..MaxRankRows} :
                IsNonDecreasing(nc[2], nc[1])}}

Unset == <<>>

Transient0 ==
    /\ pc = "start"
    /\ dsm_list = <<>> /\ selected_dsm = ""
    /\ ase_list = <<>> /\ selected_ase = ""
    /\ territory_list = <<>> /\ selected_territory = ""
    /\ filtered_df = <<>>
    /\ kpi = Unset /\ flags = Unset
    /\ out = <<>> /\ reads = <<>>
    /\ top_1_ase = <<>> /\ bottom_3_ase = <<>>
    /\ top_1_territory = <<>> /\ bottom_3_territory = <<>>

InitHier == /\ cols = MetricCols
            /\ df \in HierDatasets

InitRank == /\ cols = MetricCols
            /\ df \in RankDatasets

InitKpi ==
    \/ /\ cols = MetricCols
       /\ \E b \in [FlagNames -> BOOLEAN], mode \in KpiModes :
              df = <<MkRow("D1", "A1", "T1", KpiMetrics(b, mode), MetricCols)>>
    \/ /\ cols \in PartialSchemas
       /\ \E g \in BOOLEAN :
              df = <<MkRow("D1", "A1", "T1",
                           KpiMetrics([f \in FlagNames |-> g], "normal"), cols)>>

Init == /\ (InitHier \/ InitRank \/ InitKpi)
        /\ Transient0

-----------------------------------------------------------------------------
(* Select Filters: each selectbox returns one of the options it is given *)

DsmCandidates == sorted(dropna_unique(df, "DSM"))

SelectDSM ==
    /\ pc = "start"
    /\ dsm_list' = DsmCandidates
    /\ selected_dsm' \in {AllDSMs} \cup Elems(dsm_list')
    /\ pc' = "dsm"
    /\ UNCHANGED <<df, cols, ase_list, selected_ase, territory_list,
                   selected_territory, filtered_df, kpi, flags, out, reads,
                   top_1_ase, bottom_3_ase, top_1_territory,
                   bottom_3_territory>>

\* ASE candidates taken from the whole dataset whatever the DSM choice
AseCandidatesUnrestricted == sorted(dropna_unique(df, "ASE"))

AseCandidates ==
    IF selected_dsm = AllDSMs
    THEN sorted(dropna_unique(df, "ASE"))
    ELSE LET ase_df == Where(df, "DSM", selected_dsm)
         IN  sorted(dropna_unique(ase_df, "ASE"))

SelectASE ==
    /\ pc = "dsm"
    /\ ase_list' = AseCandidates
    /\ selected_ase' \in {AllASEs} \cup Elems(ase_list')
    /\ pc' = "ase"
    /\ UNCHANGED <<df, cols, dsm_list, selected_dsm, territory_list,
                   selected_territory, filtered_df, kpi, flags, out, reads,
                   top_1_ase, bottom_3_ase, top_1_territory,
                   bottom_3_territory>>

\* the first branch compares df['DSM'] with selected_dsm also when
\* selected_dsm is "All DSMs"
TerritoryCandidates ==
    IF selected_ase # AllASEs
    THEN LET territory_df == Where(Where(df, "DSM", selected_dsm),
                                   "ASE", selected_ase)
         IN  sorted(dropna_unique(territory_df, "SO_Territory"))
    ELSE IF selected_dsm # AllDSMs
    THEN LET territory_df == Where(df, "DSM", selected_dsm)
         IN  sorted(dropna_unique(territory_df, "SO_Territory"))
    ELSE sorted(dropna_unique(df, "SO_Territory"))

SelectTerritory ==
    /\ pc = "ase"
    /\ territory_list' = TerritoryCandidates
    /\ selected_territory' \in {AllTerritories} \cup Elems(territory_list')
    /\ pc' = "territory"
    /\ UNCHANGED <<df, cols, dsm_list, selected_dsm, ase_list, selected_ase,
                   filtered_df, kpi, flags, out, reads,
                   top_1_ase, bottom_3_ase, top_1_territory,
                   bottom_3_territory>>

-----------------------------------------------------------------------------
(* Apply Filters *)

FilterBy(table, col, selected, all) ==
    IF selected # all THEN Where(table, col, selected) ELSE table

Filtered ==
    FilterBy(FilterBy(FilterBy(df, "DSM", selected_dsm, AllDSMs),
                      "ASE", selected_ase, AllASEs),
             "SO_Territory", selected_territory, AllTerritories)

ApplyFilters ==
    /\ pc = "territory"
    /\ filtered_df' = Filtered
    /\ pc' = "filtered"
    /\ UNCHANGED <<df, cols, dsm_list, selected_dsm, ase_list, selected_ase,
                   territory_list, selected_territory, kpi, flags, out, reads,
                   top_1_ase, bottom_3_ase, top_1_territory,
                   bottom_3_territory>>

\* a diagnostic message: the severity of its st.* call and its source line
Msg(sev, line) == [sev |-> sev, line |-> line]

\* st.error("No data found for your selection."); st.stop()
NoData ==
    /\ pc = "filtered"
    /\ empty(filtered_df)
    /\ out' = Append(out, Msg("ERROR", 55))
    /\ pc' = "stopped"
    /\ UNCHANGED <<df, cols, dsm_list, selected_dsm, ase_list, selected_ase,
                   territory_list, selected_territory, filtered_df, kpi,
                   flags, reads, top_1_ase, bottom_3_ase, top_1_territory,
                   bottom_3_territory>>

-----------------------------------------------------------------------------
(* Actual Values and Plan Values *)

sum_or_zero(col) ==
    IF col \in cols THEN R(SumCol(filtered_df, col)) ELSE R(0)

\* filtered_df[col].mean() if col in filtered_df else 0.0
mean_or_zero(col) ==
    IF col \in cols THEN MeanCol(filtered_df, col) ELSE R(0)

\* the ratio guarded by ubo_actual != 0 in place of ubo_actual > 0
lines_per_outlet_actual_nonzero(uls_retailer, ubo_actual) ==
    IF RNonZero(ubo_actual) THEN RDiv(uls_retailer, ubo_actual) ELSE R(0)

lines_per_outlet_actual(uls_retailer, ubo_actual) ==
    IF RGt(ubo_actual, R(0)) THEN RDiv(uls_retailer, ubo_actual) ELSE R(0)

lines_per_db_actual(uls_db, ubo_actual) ==
    IF RGt(ubo_actual, R(0)) THEN RDiv(uls_db, ubo_actual) ELSE R(0)

lines_per_average(per_outlet, per_db) == RDiv(RAdd(per_outlet, per_db), R(2))

mandays_plan(mp_plan) == RMul(mp_plan, R(MandaysPerManpower))

\* callage plan with the mandays multiplier
callage_plan_24(routes_plan) == RMul(routes_plan, R(MandaysPerManpower))

callage_plan(routes_plan) == RMul(routes_plan, R(CallsPerRoute))

prod_plan(callage) == RMul(callage, PlanRatio)

uls_db_plan(per_db_actual, ubo_actual) ==
    IF RGt(ubo_actual, R(0)) THEN per_db_actual ELSE R(0)

lines_per_outlet_plan(db_plan) == RMul(db_plan, PlanRatio)

lines_per_average_plan(outlet_plan, db_plan) ==
    RDiv(RAdd(outlet_plan, db_plan), R(2))

KpiValues ==
    LET ubo == sum_or_zero("UBO Actual")
        lpo == lines_per_outlet_actual(sum_or_zero("ULS Retailer"), ubo)
        lpd == lines_per_db_actual(sum_or_zero("ULS DB"), ubo)
        mp  == sum_or_zero("Manpower Plan")
        rp  == sum_or_zero("Unique Routes Plan")
        cp  == callage_plan(rp)
        udp == uls_db_plan(lpd, ubo)
        lop == lines_per_outlet_plan(udp)
    IN  [mp_actual |-> sum_or_zero("Manpower Actual"),
         mandays_actual |-> sum_or_zero("Mandays Actual"),
         routes_actual |-> sum_or_zero("Unique Routes Actual"),
         callage_actual |-> sum_or_zero("Unique Callage Actual"),
         prod_actual |-> sum_or_zero("Productivity Actual"),
         sec_actual |-> sum_or_zero("Secondary INR Actual"),
         ubo_actual |-> ubo,
         uls_retailer |-> sum_or_zero("ULS Retailer"),
         uls_db |-> sum_or_zero("ULS DB"),
         tp_per_outlet |-> mean_or_zero("TP per Outlet Actual"),
         lines_per_outlet_actual |-> lpo,
         lines_per_db_actual |-> lpd,
         lines_per_average |-> lines_per_average(lpo, lpd),
         mp_plan |-> mp,
         mandays_plan |-> mandays_plan(mp),
         routes_plan |-> rp,
         callage_plan |-> cp,
         prod_plan |-> prod_plan(cp),
         sec_plan |-> sum_or_zero("Secondary INR Plan"),
         uls_db_plan |-> udp,
         lines_per_outlet_plan |-> lop,
         lines_per_average_plan |-> lines_per_average_plan(lop, udp),
         tp_per_outlet_plan |-> mean_or_zero("TP per Outlet Plan"),
         ubo_plan |-> sum_or_zero("UBO Plan")]

\* runs only past the empty check of lines 54-56
Aggregate ==
    /\ pc = "filtered"
    /\ ~empty(filtered_df)
    /\ kpi' = KpiValues
    /\ pc' = "aggregated"
    /\ UNCHANGED <<df, cols, dsm_list, selected_dsm, ase_list, selected_ase,
                   territory_list, selected_territory, filtered_df, flags,
                   out, reads, top_1_ase, bottom_3_ase, top_1_territory,
                   bottom_3_territory>>

-----------------------------------------------------------------------------
(* Evaluation Flags *)

\* is_good with > in place of >=
is_good_strict(actual, plan) ==
    IF RNonZero(plan) THEN RGt(actual, RMul(Threshold, plan)) ELSE FALSE

is_good(actual, plan) ==
    IF RNonZero(plan) THEN RGeq(actual, RMul(Threshold, plan)) ELSE FALSE

manday_flag(mandays_actual, mp_plan) ==
    IF RGt(mp_plan, R(0))
    THEN RGeq(mandays_actual, RMul(mp_plan, R(MandaysPerManpower)))
    ELSE FALSE

FlagValues ==
    [callage |-> is_good(kpi.callage_actual, kpi.callage_plan),
     routes |-> is_good(kpi.routes_actual, kpi.routes_plan),
     productivity |-> is_good(kpi.prod_actual, kpi.prod_plan),
     lines |-> is_good(kpi.lines_per_average, kpi.lines_per_average_plan),
     tp |-> is_good(kpi.tp_per_outlet, kpi.tp_per_outlet_plan),
     secondary |-> is_good(kpi.sec_actual, kpi.sec_plan),
     manday |-> manday_flag(kpi.mandays_actual, kpi.mp_plan)]

Evaluate ==
    /\ pc = "aggregated"
    /\ flags' = FlagValues
    /\ pc' = "evaluated"
    /\ UNCHANGED <<df, cols, dsm_list, selected_dsm, ase_list, selected_ase,
                   territory_list, selected_territory, filtered_df, kpi,
                   out, reads, top_1_ase, bottom_3_ase, top_1_territory,
                   bottom_3_territory>>

-----------------------------------------------------------------------------
(* Diagnostic narrator.  A walk of a tree yields the messages it emits and  *)
(* the flags[...] lookups it makes, both in order.                          *)

Say(sev, line) == [msgs |-> <<Msg(sev, line)>>, reads |-> <<>>]

Silent == [msgs |-> <<>>, reads |-> <<>>]

\* a ; b
Then(a, b) == [msgs |-> a.msgs \o b.msgs, reads |-> a.reads \o b.reads]

\* if flags[name]: a  else: b
IfFlag(f, name, a, b) ==
    LET taken == IF f[name] THEN a ELSE b
    IN  [msgs |-> taken.msgs, reads |-> <<name>> \o taken.reads]

\* if not flags[name]: a  else: b
IfNotFlag(f, name, a, b) ==
    LET taken == IF ~f[name] THEN a ELSE b
    IN  [msgs |-> taken.msgs, reads |-> <<name>> \o taken.reads]

\* Tree A that goes on to the secondary test when productivity is false
TreeAFallThrough(f) ==
    IfFlag(f, "callage",
        Then(Say("OK", 129),
             Then(IfFlag(f, "productivity",
                      Say("OK", 131),
                      Say("WARNING", 141)),
                  IfFlag(f, "secondary",
                      Say("OK", 133),
                      Then(Say("WARNING", 135),
                           IfFlag(f, "lines",
                               Say("INFO", 137),
                               Say("ERROR", 139)))))),
        Then(Say("ERROR", 143),
             IfFlag(f, "routes",
                 Say("INFO", 145),
                 IfFlag(f, "manday",
                     Say("INFO", 147),
                     Say("ERROR", 149)))))

\* Dependency Flow Analysis
TreeA(f) ==
    IfFlag(f, "callage",
        Then(Say("OK", 129),
             IfFlag(f, "productivity",
                 Then(Say("OK", 131),
                      IfFlag(f, "secondary",
                          Say("OK", 133),
                          Then(Say("WARNING", 135),
                               IfFlag(f, "lines",
                                   Say("INFO", 137),
                                   Say("ERROR", 139))))),
                 Say("WARNING", 141))),
        Then(Say("ERROR", 143),
             IfFlag(f, "routes",
                 Say("INFO", 145),
                 IfFlag(f, "manday",
                     Say("INFO", 147),
                     Say("ERROR", 149)))))

\* Tree B that tests secondary after every TP-ok message
TreeBSecondaryEverywhere(f) ==
    IfFlag(f, "lines",
        Then(Say("OK", 155),
             IfFlag(f, "tp",
                 Then(Say("OK", 157),
                      Then(Say("INFO", 158),
                           IfFlag(f, "secondary",
                               Say("OK", 160),
                               Say("WARNING", 162)))),
                 Then(Say("WARNING", 164), Say("INFO", 165)))),
        IfNotFlag(f, "lines",
            Then(Say("ERROR", 167),
                 IfFlag(f, "tp",
                     Then(Say("OK", 169),
                          Then(Say("INFO", 170),
                               IfFlag(f, "secondary",
                                   Say("OK", 160),
                                   Say("WARNING", 162)))),
                     Then(Say("ERROR", 172), Say("INFO", 173)))),
            Silent))

\* the value-chain tree; its second branch is `elif not flags['lines']`
TreeB(f) ==
    IfFlag(f, "lines",
        Then(Say("OK", 155),
             IfFlag(f, "tp",
                 Then(Say("OK", 157),
                      Then(Say("INFO", 158),
                           IfFlag(f, "secondary",
                               Say("OK", 160),
                               Say("WARNING", 162)))),
                 Then(Say("WARNING", 164), Say("INFO", 165)))),
        IfNotFlag(f, "lines",
            Then(Say("ERROR", 167),
                 IfFlag(f, "tp",
                     Then(Say("OK", 169), Say("INFO", 170)),
                     Then(Say("ERROR", 172), Say("INFO", 173)))),
            Silent))

Tag(tree, names) == [i \in 1..Len(names) |-> <<tree, names[i]>>]

NarrateA ==
    /\ pc = "evaluated"
    /\ out' = out \o TreeA(flags).msgs
    /\ reads' = reads \o Tag("A", TreeA(flags).reads)
    /\ pc' = "treeA"
    /\ UNCHANGED <<df, cols, dsm_list, selected_dsm, ase_list, selected_ase,
                   territory_list, selected_territory, filtered_df, kpi,
                   flags, top_1_ase, bottom_3_ase, top_1_territory,
                   bottom_3_territory>>

NarrateB ==
    /\ pc = "treeA"
    /\ out' = out \o TreeB(flags).msgs
    /\ reads' = reads \o Tag("B", TreeB(flags).reads)
    /\ pc' = "treeB"
    /\ UNCHANGED <<df, cols, dsm_list, selected_dsm, ase_list, selected_ase,
                   territory_list, selected_territory, filtered_df, kpi,
                   flags, top_1_ase, bottom_3_ase, top_1_territory,
                   bottom_3_territory>>

-----------------------------------------------------------------------------
(* Top Performers and Bottom Performers *)

\* leaderboards grouped from the filtered rows
LeaderboardSourceFiltered == filtered_df

\* the table the leaderboards group: df, not filtered_df
LeaderboardSource == df

\* table.groupby(col)["Secondary INR Actual"].sum(); groupby drops NaN keys
GroupSums(table, col) ==
    [g \in dropna_unique(table, col) |->
        SumCol(Where(table, col, g), "Secondary INR Actual")]

\* stats.sort_values(ascending=False).reset_index(): the (key, sum) pairs in
\* descending order of the sum; the order among equal sums is whatever the
\* sort algorithm leaves, so every such order is allowed
sort_values(stats) ==
    LET n == Cardinality(DOMAIN stats)
    IN  {[i \in 1..n |-> <<p[i], stats[p[i]]>>] :
            p \in {q \in [1..n -> DOMAIN stats] :
                      /\ \A i \in 1..n : \A j \in 1..n : i # j => q[i] # q[j]
                      /\ \A i \in 1..n : \A j \in 1..n :
                             i < j => stats[q[i]] >= stats[q[j]]}}

head(s, n) == SubSeq(s, 1, IF n < Len(s) THEN n ELSE Len(s))

tail(s, n) == SubSeq(s, IF n < Len(s) THEN Len(s) - n + 1 ELSE 1, Len(s))

Leaderboards ==
    /\ pc = "treeB"
    /\ "Secondary INR Actual" \in cols
    /\ \E ra \in sort_values(GroupSums(LeaderboardSource, "ASE")),
          rt \in sort_values(GroupSums(LeaderboardSource, "SO_Territory")) :
          /\ top_1_ase' = head(ra, TopN)
          /\ bottom_3_ase' = tail(ra, BottomN)
          /\ top_1_territory' = head(rt, TopN)
          /\ bottom_3_territory' = tail(rt, BottomN)
    /\ pc' = "done"
    /\ UNCHANGED <<df, cols, dsm_list, selected_dsm, ase_list, selected_ase,
                   territory_list, selected_territory, filtered_df, kpi,
                   flags, out, reads>>

\* df.groupby("ASE")["Secondary INR Actual"] raises KeyError when the dataset
\* has no such column
LeaderboardKeyError ==
    /\ pc = "treeB"
    /\ "Secondary INR Actual" \notin cols
    /\ pc' = "error"
    /\ UNCHANGED <<df, cols, dsm_list, selected_dsm, ase_list, selected_ase,
                   territory_list, selected_territory, filtered_df, kpi,
                   flags, out, reads, top_1_ase, bottom_3_ase,
                   top_1_territory, bottom_3_territory>>

\* a selection change runs the script again from the top; load_data() is
\* cached, every other name is recomputed
Rerun ==
    /\ pc \in {"stopped", "done", "error"}
    /\ pc' = "start"
    /\ dsm_list' = <<>> /\ selected_dsm' = ""
    /\ ase_list' = <<>> /\ selected_ase' = ""
    /\ territory_list' = <<>> /\ selected_territory' = ""
    /\ filtered_df' = <<>>
    /\ kpi' = Unset /\ flags' = Unset
    /\ out' = <<>> /\ reads' = <<>>
    /\ top_1_ase' = <<>> /\ bottom_3_ase' = <<>>
    /\ top_1_territory' = <<>> /\ bottom_3_territory' = <<>>
    /\ UNCHANGED <<df, cols>>

Next ==
    \/ SelectDSM
    \/ SelectASE
    \/ SelectTerritory
    \/ ApplyFilters
    \/ NoData
    \/ Aggregate
    \/ Evaluate
    \/ NarrateA
    \/ NarrateB
    \/ Leaderboards
    \/ LeaderboardKeyError
    \/ Rerun

Spec == Init /\ [][Next]_vars

-----------------------------------------------------------------------------
(* Properties *)

AfterAggregate == {"aggregated", "evaluated", "treeA", "treeB", "done", "error"}

AfterEvaluate == {"evaluated", "treeA", "treeB", "done", "error"}

AfterTreeA == {"treeA", "treeB", "done", "error"}

AfterTreeB == {"treeB", "done", "error"}

\* the (flag, actual, plan) triples of the six generic flags
GenericFlags ==
    {<<"callage", "callage_actual", "callage_plan">>,
     <<"routes", "routes_actual", "routes_plan">>,
     <<"productivity", "prod_actual", "prod_plan">>,
     <<"lines", "lines_per_average", "lines_per_average_plan">>,
     <<"tp", "tp_per_outlet", "tp_per_outlet_plan">>,
     <<"secondary", "sec_actual", "sec_plan">>}

\* a >= 0.9 * p for finite a = a1/a2 and p = p1/p2 with a2, p2 > 0
AtLeastNineTenths(a, p) == 10 * a[1] * p[2] >= 9 * p[1] * a[2]

\* C1: each of the six generic flags is false when its plan is 0 and otherwise
\* true iff actual >= 0.9 * plan (equality included); manday is true iff
\* manpower_plan > 0 and mandays_actual >= manpower_plan * 24
C1_FlagsFollowThreshold ==
    pc \in AfterEvaluate =>
        /\ \A g \in GenericFlags :
               flags[g[1]] = (/\ kpi[g[3]][1] # 0
                              /\ AtLeastNineTenths(kpi[g[2]], kpi[g[3]]))
        /\ flags.manday =
               (/\ kpi.mp_plan[1] > 0
                /\ kpi.mandays_actual[1] * kpi.mp_plan[2]
                       >= 24 * kpi.mp_plan[1] * kpi.mandays_actual[2])

\* C1 witness: callage sits exactly on 0.9 * plan and is true, secondary has
\* plan 0 with a positive actual and is false, manday is true
C1_Witness ==
    /\ pc = "evaluated"
    /\ kpi.callage_plan[1] > 0
    /\ 10 * kpi.callage_actual[1] = 9 * kpi.callage_plan[1]
    /\ flags.callage
    /\ kpi.sec_plan[1] = 0 /\ kpi.sec_actual[1] > 0 /\ ~flags.secondary
    /\ flags.manday

\* the messages of out that lines first..last of the script emit
EmittedBy(first, last) ==
    SelectSeq(out, LAMBDA m : m.line >= first /\ m.line <= last)

Severities(msgs) == [i \in 1..Len(msgs) |-> msgs[i].sev]

TreeAOut == EmittedBy(128, 149)

TreeBOut == EmittedBy(154, 173)

\* the severity sequence expected of Tree A for each flag combination
ExpectedTreeA(f) ==
    CASE ~f.callage /\ f.routes -> <<"ERROR", "INFO">>
      [] ~f.callage /\ ~f.routes /\ f.manday -> <<"ERROR", "INFO">>
      [] ~f.callage /\ ~f.routes /\ ~f.manday -> <<"ERROR", "ERROR">>
      [] f.callage /\ ~f.productivity -> <<"OK", "WARNING">>
      [] f.callage /\ f.productivity /\ f.secondary -> <<"OK", "OK", "OK">>
      [] f.callage /\ f.productivity /\ ~f.secondary /\ f.lines ->
             <<"OK", "OK", "WARNING", "INFO">>
      [] f.callage /\ f.productivity /\ ~f.secondary /\ ~f.lines ->
             <<"OK", "OK", "WARNING", "ERROR">>

\* C2: for every flag combination Tree A emits the severity sequence of
\* ExpectedTreeA, which reads only callage, routes and manday when callage is
\* false and only callage and productivity when productivity is false
C2_TreeASeverities ==
    pc \in AfterTreeA => Severities(TreeAOut) = ExpectedTreeA(flags)

\* C2 witness: callage true, productivity false, every other flag true, and
\* Tree A has stopped after OK, WARNING
C2_Witness ==
    /\ pc = "treeA"
    /\ flags.callage /\ ~flags.productivity
    /\ flags.secondary /\ flags.lines /\ flags.tp /\ flags.routes
    /\ flags.manday
    /\ Severities(TreeAOut) = <<"OK", "WARNING">>

\* the severity sequence expected of Tree B for each combination of lines,
\* tp and secondary
ExpectedTreeB(f) ==
    CASE f.lines /\ f.tp /\ f.secondary -> <<"OK", "OK", "INFO", "OK">>
      [] f.lines /\ f.tp /\ ~f.secondary -> <<"OK", "OK", "INFO", "WARNING">>
      [] f.lines /\ ~f.tp -> <<"OK", "WARNING", "INFO">>
      [] ~f.lines /\ f.tp -> <<"ERROR", "OK", "INFO">>
      [] ~f.lines /\ ~f.tp -> <<"ERROR", "ERROR", "INFO">>

\* C3: for every flag combination Tree B emits the severity sequence of
\* ExpectedTreeB, which depends on lines, tp and secondary only, and on
\* secondary only when lines and tp are both true
C3_TreeBSeverities ==
    pc \in AfterTreeB => Severities(TreeBOut) = ExpectedTreeB(flags)

\* C3 witness: lines false, tp true, secondary false, and Tree B has emitted
\* ERROR, OK, INFO without a secondary message
C3_Witness ==
    /\ pc = "treeB"
    /\ ~flags.lines /\ flags.tp /\ ~flags.secondary
    /\ Severities(TreeBOut) = <<"ERROR", "OK", "INFO">>

NoRepeats(s) == \A i \in 1..Len(s) : \A j \in 1..Len(s) : i # j => s[i] # s[j]

\* C4: for every flag combination both trees run, every Tree A message comes
\* before any Tree B message, each tree contributes 1 to 4 messages, and no
\* flag is read twice by the same tree
C4_TreesTotalReadOnce ==
    pc \in AfterTreeB =>
        /\ out = TreeAOut \o TreeBOut
        /\ Len(TreeAOut) \in 1..4
        /\ Len(TreeBOut) \in 1..4
        /\ NoRepeats(reads)

LeaderboardsUnset ==
    /\ top_1_ase = <<>> /\ bottom_3_ase = <<>>
    /\ top_1_territory = <<>> /\ bottom_3_territory = <<>>

\* C5: on an empty filtered row set the script reports "no data" and stops:
\* no KPI value, flag, tree message or leaderboard is computed and no exception
\* is raised; aggregation, evaluation and the narrator run only on a filtered
\* set with at least one row
C5_EmptySelectionStops ==
    /\ (pc = "filtered" /\ Len(filtered_df) = 0) =>
           (ENABLED NoData /\ ~ENABLED Aggregate)
    /\ (pc \in AfterAggregate \cup {"stopped"} /\ Len(filtered_df) = 0) =>
           /\ pc = "stopped"
           /\ out = <<Msg("ERROR", 55)>>
           /\ DOMAIN kpi = {} /\ DOMAIN flags = {}
           /\ reads = <<>>
           /\ LeaderboardsUnset
    /\ (DOMAIN kpi # {} \/ DOMAIN flags # {} \/ TreeAOut # <<>>
            \/ TreeBOut # <<>>) => Len(filtered_df) > 0

\* C5 witness: the script has stopped on an empty filtered set with only the
\* "no data" message
C5_Witness ==
    /\ pc = "stopped"
    /\ Len(filtered_df) = 0
    /\ out = <<Msg("ERROR", 55)>>

AfterSelect == {"territory", "filtered", "stopped"} \cup AfterAggregate

AfterFilter == {"filtered", "stopped"} \cup AfterAggregate

Rows(table) == {table[i] : i \in 1..Len(table)}

MatchesDSM(r) == selected_dsm = AllDSMs \/ r["DSM"] = selected_dsm

MatchesASE(r) == selected_ase = AllASEs \/ r["ASE"] = selected_ase

MatchesTerritory(r) ==
    selected_territory = AllTerritories \/ r["SO_Territory"] = selected_territory

\* list holds exactly the keys of S, each once, in ascending order
IsSortedListOf(list, S) ==
    /\ Elems(list) = S
    /\ \A i \in 1..Len(list) : \A j \in 1..Len(list) :
           i < j => KeyRank(list[i]) < KeyRank(list[j])

\* C6: the level-2 candidates are the sorted distinct non-null ASEs of the rows
\* matching the level-1 choice, and the level-3 candidates the sorted distinct
\* non-null territories of the rows matching every non-"all" choice of level 1
\* and level 2, also when level 1 is "all" and level 2 is a specific ASE
C6_CandidatesFollowSelection ==
    pc \in AfterSelect =>
        /\ IsSortedListOf(ase_list,
               {r["ASE"] : r \in {x \in Rows(df) : MatchesDSM(x)}} \ {NULL})
        /\ IsSortedListOf(territory_list,
               {r["SO_Territory"] :
                    r \in {x \in Rows(df) : MatchesDSM(x) /\ MatchesASE(x)}}
                   \ {NULL})

\* the (key, sum) pairs of the groups of the full dataset by col
GroupTotals(col) ==
    {<<g, SumCol(SelectSeq(df, LAMBDA r : r[col] = g), "Secondary INR Actual")>> :
        g \in {df[i][col] : i \in 1..Len(df)} \ {NULL}}

\* top and bottom are the first 1 and the last 3 entries of one descending
\* ranking of the groups of the full dataset
IsLeaderboard(top, bottom, col) ==
    LET G == GroupTotals(col)
        n == Cardinality(G)
    IN  /\ Len(top) = (IF n < 1 THEN n ELSE 1)
        /\ Len(bottom) = (IF n < 3 THEN n ELSE 3)
        /\ Elems(top) \subseteq G /\ Elems(bottom) \subseteq G
        /\ NoRepeats(bottom)
        /\ \A i \in 1..Len(bottom) : \A j \in 1..Len(bottom) :
               i < j => bottom[i][2] >= bottom[j][2]
        /\ \A e \in Elems(top) : \A g \in G : e[2] >= g[2]
        /\ \A g \in G \ Elems(bottom) : \A e \in Elems(bottom) : g[2] >= e[2]
        /\ (n >= 1 /\ n <= 3) => bottom[1] = top[1]
        /\ n > 3 => top[1] \notin Elems(bottom)

\* C7: whatever the selection, the leaderboards rank the groups of the full
\* dataset by summed secondary actual, descending; the top list is the first
\* entry and the bottom list the last 3, or all of them (the top one included)
\* when there are fewer than 3 groups
C7_LeaderboardsAreGlobal ==
    pc = "done" =>
        /\ IsLeaderboard(top_1_ase, bottom_3_ase, "ASE")
        /\ IsLeaderboard(top_1_territory, bottom_3_territory, "SO_Territory")

\* C7 witness: a drill-down that keeps only part of a dataset with two ASE
\* groups; the bottom list holds both groups, the top one first
C7_Witness ==
    /\ pc = "done"
    /\ Len(filtered_df) < Len(df)
    /\ Cardinality(GroupTotals("ASE")) = 2
    /\ Len(bottom_3_ase) = 2
    /\ bottom_3_ase[1] = top_1_ase[1]
    /\ bottom_3_ase[1][2] > bottom_3_ase[2][2]

\* the sum of a column over the filtered rows, 0 for a column not in the schema
PlainSum(col) == IF col \in cols THEN SumCol(filtered_df, col) ELSE 0

\* the (script name, column) pairs the script sums with sum_or_zero
SummedColumns ==
    {<<"mp_actual", "Manpower Actual">>,
     <<"mandays_actual", "Mandays Actual">>,
     <<"routes_actual", "Unique Routes Actual">>,
     <<"callage_actual", "Unique Callage Actual">>,
     <<"prod_actual", "Productivity Actual">>,
     <<"sec_actual", "Secondary INR Actual">>,
     <<"ubo_actual", "UBO Actual">>,
     <<"uls_retailer", "ULS Retailer">>,
     <<"uls_db", "ULS DB">>,
     <<"mp_plan", "Manpower Plan">>,
     <<"routes_plan", "Unique Routes Plan">>,
     <<"sec_plan", "Secondary INR Plan">>,
     <<"ubo_plan", "UBO Plan">>}

\* C8: on a non-empty filtered set mandays_plan = 24 * sum(Manpower Plan),
\* callage_plan = 40 * sum(Unique Routes Plan) and productivity_plan =
\* 0.8 * callage_plan = 32 * sum(Unique Routes Plan), where the sum of a
\* column absent from the dataset is 0, as is every sum_or_zero of one
C8_PlanMultiples ==
    pc \in AfterAggregate =>
        /\ Len(filtered_df) > 0
        /\ \A sc \in SummedColumns : kpi[sc[1]] = <<PlainSum(sc[2]), 1>>
        /\ kpi.mandays_plan = <<24 * PlainSum("Manpower Plan"), 1>>
        /\ kpi.callage_plan = <<40 * PlainSum("Unique Routes Plan"), 1>>
        /\ kpi.prod_plan = <<32 * PlainSum("Unique Routes Plan"), 1>>
        /\ 10 * kpi.prod_plan[1] = 8 * kpi.callage_plan[1]

\* C8 witness: a dataset without the Unique Routes Plan column has been
\* aggregated: callage_plan is 0 and mandays_plan is 24 times a positive sum
C8_Witness ==
    /\ pc = "aggregated"
    /\ "Unique Routes Plan" \notin cols
    /\ kpi.callage_plan = <<0, 1>>
    /\ kpi.mp_plan[1] > 0
    /\ kpi.mandays_plan[1] = 24 * kpi.mp_plan[1]

\* a = b * c for finite rationals
IsProduct(a, b, c) == a[1] * b[2] * c[2] = b[1] * c[1] * a[2]

\* 2 * a = b + c for finite rationals
IsMean(a, b, c) == 2 * a[1] * b[2] * c[2] = (b[1] * c[2] + c[1] * b[2]) * a[2]

\* C9: when the summed UBO actual is not positive the three lines-per actuals
\* and the three pegged plan values are 0 and the lines flag is false; when it
\* is positive uls_db_plan = lines_per_db_actual, lines_per_outlet_plan =
\* 0.8 * uls_db_plan and lines_per_average_plan is the mean of the two
C9_LinesPerOutletGuard ==
    pc \in AfterAggregate =>
        /\ ~IsNaN(kpi.lines_per_outlet_actual)
        /\ ~IsNaN(kpi.lines_per_db_actual)
        /\ ~IsNaN(kpi.lines_per_average)
        /\ kpi.ubo_actual[1] <= 0 =>
               /\ kpi.lines_per_outlet_actual = <<0, 1>>
               /\ kpi.lines_per_db_actual = <<0, 1>>
               /\ kpi.lines_per_average = <<0, 1>>
               /\ kpi.uls_db_plan = <<0, 1>>
               /\ kpi.lines_per_outlet_plan = <<0, 1>>
               /\ kpi.lines_per_average_plan = <<0, 1>>
               /\ pc \in AfterEvaluate => ~flags.lines
        /\ kpi.ubo_actual[1] > 0 =>
               /\ IsProduct(kpi.uls_retailer, kpi.lines_per_outlet_actual,
                            kpi.ubo_actual)
               /\ IsProduct(kpi.uls_db, kpi.lines_per_db_actual, kpi.ubo_actual)
               /\ kpi.uls_db_plan = kpi.lines_per_db_actual
               /\ IsProduct(kpi.lines_per_outlet_plan, <<8, 10>>,
                            kpi.uls_db_plan)
               /\ IsMean(kpi.lines_per_average_plan, kpi.lines_per_outlet_plan,
                         kpi.uls_db_plan)

\* C9 witness: UBO actual sums to 0 while lines were billed, and the lines
\* flag has been evaluated to false
C9_Witness ==
    /\ pc = "evaluated"
    /\ kpi.ubo_actual = <<0, 1>>
    /\ kpi.uls_retailer[1] > 0 /\ kpi.uls_db[1] > 0
    /\ kpi.lines_per_average = <<0, 1>>
    /\ ~flags.lines

\* every chosen key is "all" or one of the candidates offered for its level
SelectionFromCandidates ==
    /\ selected_dsm \in {AllDSMs} \cup Elems(dsm_list)
    /\ selected_ase \in {AllASEs} \cup Elems(ase_list)
    /\ selected_territory \in {AllTerritories} \cup Elems(territory_list)

C10_FilteredState ==
    pc \in AfterFilter =>
        /\ SelectionFromCandidates
        /\ filtered_df =
               SelectSeq(df, LAMBDA r : /\ MatchesDSM(r) /\ MatchesASE(r)
                                        /\ MatchesTerritory(r))
        /\ Len(df) > 0 => Len(filtered_df) > 0
        /\ pc = "stopped" => Len(df) = 0

\* C10: over any sequence of runs whose keys are "all" or offered candidates,
\* the filtered set is exactly the rows matching every non-"all" key, it is
\* non-empty whenever the dataset has a row, so the "no data" stop is reached
\* only on an empty dataset, and the dataset itself never changes
C10_FilterNeverEmptiesNonEmptyData ==
    /\ []C10_FilteredState
    /\ [][df' = df]_vars

\* C10 witness: a filter with three specific keys keeps a non-empty strict
\* part of the dataset
C10_Witness ==
    /\ pc = "filtered"
    /\ selected_dsm # AllDSMs
    /\ selected_ase # AllASEs
    /\ selected_territory # AllTerritories
    /\ Len(filtered_df) > 0
    /\ Len(filtered_df) < Len(df)

=============================================================================
